---- MODULE Spec2Model ----
(***************************************************************************)
(* Model of the Big Board dashboard client                                 *)
(* (frontend/src/lib/stores/items.ts, mounted by routes/+page.svelte) and  *)
(* of the server it talks to over one WebSocket per connection.            *)
(*                                                                         *)
(* The client is a single browser page: a svelte store (dashboardState),   *)
(* three module-level variables (ws, reconnectTimeout, displayDateTimeout) *)
(* and the callbacks the browser runs one at a time: socket events, timer  *)
(* callbacks, mount/destroy of the page and clicks.                        *)
(***************************************************************************)
EXTENDS Integers, Sequences, FiniteSets, TLC

\* ---------------------------------------------------------------- bounds
\* live sockets plus pending reconnect timers the page may own at once
MaxLive == 2
\* messages in flight per direction and per socket
MaxQueue == 2

\* days after day 0 the wall clock may reach
MaxDay == 1
\* the last day a board of weekly items is looked at on
LastDay == 13

\* --------------------------------------------------------------- constants
\* setTimeout(connectWebSocket, 2000)
ReconnectDelayMs == 2000

\* target.setHours(19, 0, 0, 0)
CutoffHour == 19

HourMs == 60 * 60 * 1000
DayMs == 24 * HourMs
CutoffMs == CutoffHour * HourMs

\* the instants of an evening: 10:00 and the cutoff itself
Morning == 10 * HourMs
Evening == {Morning, CutoffMs}

\* the local time at which a zone with daylight saving shifts its clock
ClockChangeAt == 2 * HourMs

\* the times of day a page may open at: every full hour, and the instants
\* around the cutoff, the clock change and midnight
Instants ==
    {h * HourMs : h \in 0..23}
        \cup {CutoffMs - 1000, CutoffMs - 1, CutoffMs + 1, ClockChangeAt - 1, DayMs - 1}

\* the clock changes of a night: one hour forward, none, one hour back
Shifts == {-HourMs, 0, HourMs}

SockIds == 1..(MaxLive + 1)
TimerIds == 1..(MaxLive + 3)
ItemIds == {1, 2}
MaxItems == Cardinality(ItemIds)

NoTimer == [kind |-> "none", delay |-> 0, elapsed |-> 0, due |-> FALSE]

VARIABLES
    mounted,            \* the page component is mounted (onMount ran, onDestroy did not)
    ws,                 \* let ws: the current socket, 0 for null
    sockState,          \* readyState of every socket; one never created is CLOSED too
    errPending,         \* socket whose error event ran and whose close event follows in the same task
    inbox,              \* server -> client messages in flight, per socket
    outbox,             \* client -> server messages in flight, per socket
    reconnectTimeout,   \* let reconnectTimeout: a timer id, 0 for null
    displayDateTimeout, \* let displayDateTimeout: a timer id, 0 for null
    timers,             \* the browser's table of pending timers
    dashboardState,     \* the svelte store: the client's mirror
    lastFrame,          \* type of the frame ws.onmessage ran for last, "none" before the first
    board,              \* the server's canonical BoardState
    today,              \* the local calendar day of the wall clock, as a day number
    clock,              \* the local time of day of the wall clock, in ms since 00:00
    shift,              \* ms the local clock is set back at the next ClockChangeAt (negative: forward)
    resetArmed,         \* the day at whose 00:00 the server's reset timer fires
    reported,           \* what the server's markHandled reported to its caller last
    peer                \* the store of a second display on the same server: its mirror

vars == <<mounted, ws, sockState, errPending, inbox, outbox, reconnectTimeout,
          displayDateTimeout, timers, dashboardState, lastFrame, board, today, clock,
          shift, resetArmed, reported, peer>>

\* ------------------------------------------------------------------ data
\* interface Item: the fields the board works with
ItemOn(i, h, stay, date, recurrence) ==
    [id |-> i, handled |-> h, stay_until_done |-> stay, date |-> date,
     recurrence |-> recurrence]

\* a weekly item: recurrence_day is the weekday index, 0 = Monday .. 6 = Sunday
WeeklyItem(i, date, day) ==
    [id |-> i, handled |-> FALSE, stay_until_done |-> FALSE, date |-> date,
     recurrence |-> "weekly", recurrence_day |-> day]

\* an item that recurs daily from day 0 on
Item(i, h) == ItemOn(i, h, FALSE, 0, "daily")

NoColors == [n \in {} |-> ""]
Colors1 == [n \in {"Dad"} |-> "#FF6B6B"]
Colors2 == [n \in {"Dad", "Emma"} |-> IF n = "Dad" THEN "#FF6B6B" ELSE "#4ECDC4"]

\* const initialState: the mirror before the first message; displayDate is
\* the UTC date of the moment, the local day in the zone modelled
initialState ==
    [items |-> <<>>, familyMembers |-> NoColors, categories |-> <<>>,
     displayDate |-> 0, isTomorrow |-> FALSE, connected |-> FALSE]

\* the calendar: day 0 is 2024-12-15, a Sunday
DayNames == <<"Sunday", "Monday", "Tuesday", "Wednesday", "Thursday", "Friday", "Saturday">>
dayName(date) == DayNames[(date % 7) + 1]

\* a weekday index that counts from Sunday, 0 = Sunday .. 6 = Saturday
weekdayFromSunday(date) == date % 7

\* weekday(date): 0 = Monday .. 6 = Sunday
weekday(date) == (date + 6) % 7

\* ItemCard: weekdayNames, formatRecurrence: "(Every <name of the day>)" for
\* a weekly item, "(<recurrence>)" for the others that the model has
weekdayNames ==
    <<"Monday", "Tuesday", "Wednesday", "Thursday", "Friday", "Saturday", "Sunday">>

formatRecurrence(item) ==
    IF item.recurrence = "weekly" THEN <<"Every", weekdayNames[item.recurrence_day + 1]>>
    ELSE <<item.recurrence>>

\* an evaluator that treats a one-off item as occurring from its date on
occursOnOrAfter(item, date) == date >= item.date

\* RecurrenceEvaluator: occursOn(item, date) for recurrence none, daily and
\* weekly; a recurring item does not occur before its anchor date
occursOn(item, date) ==
    IF item.recurrence = "none" THEN item.date = date
    ELSE IF item.recurrence = "weekly"
    THEN weekday(date) = item.recurrence_day /\ date >= item.date
    ELSE date >= item.date

\* the items of the display window: those that occur on the display date
\* and those that stay until done
visibleItems(b) ==
    SelectSeq(b.items, LAMBDA item :
        occursOn(item, b.display_date) \/ (item.stay_until_done /\ ~item.handled))

\* a full snapshot of the board as the wire carries it
Message(type, b) ==
    [type |-> type, items |-> visibleItems(b), family_members |-> b.family_members,
     categories |-> b.categories, display_date |-> b.display_date,
     is_tomorrow |-> b.is_tomorrow]

\* event.data that JSON.parse rejects
Malformed == [type |-> "malformed"]

\* an active list that does not look at the handled flag
activeItemsAll(state) == state.items

\* export const activeItems / handledItems
activeItems(state) == SelectSeq(state.items, LAMBDA item : ~item.handled)
handledItems(state) == SelectSeq(state.items, LAMBDA item : item.handled)

\* a handleMessage that keeps the display date it has
handleMessageKeepsDate(state, data) ==
    IF data.type = "init" \/ data.type = "update"
    THEN [state EXCEPT !.items = data.items,
                       !.familyMembers = data.family_members,
                       !.categories = data.categories,
                       !.isTomorrow = data.is_tomorrow]
    ELSE state

\* a handleMessage that applies every frame that parses, whatever its type
handleMessageAnyType(state, data) ==
    [state EXCEPT !.items = data.items,
                  !.familyMembers = data.family_members,
                  !.categories = data.categories,
                  !.displayDate = data.display_date,
                  !.isTomorrow = data.is_tomorrow]

\* a handleMessage that merges the items it receives into those it has
handleMessageMerges(state, data) ==
    IF data.type = "init" \/ data.type = "update"
    THEN [state EXCEPT !.items = state.items \o data.items,
                       !.familyMembers = data.family_members,
                       !.categories = data.categories,
                       !.displayDate = data.display_date,
                       !.isTomorrow = data.is_tomorrow]
    ELSE state

\* a handleMessage that takes the init message only
handleMessageInitOnly(state, data) ==
    IF data.type = "init"
    THEN [state EXCEPT !.items = data.items,
                       !.familyMembers = data.family_members,
                       !.categories = data.categories,
                       !.displayDate = data.display_date,
                       !.isTomorrow = data.is_tomorrow]
    ELSE state

\* a handleMessage that takes update messages only
handleMessageUpdateOnly(state, data) ==
    IF data.type = "update"
    THEN [state EXCEPT !.items = data.items,
                       !.familyMembers = data.family_members,
                       !.categories = data.categories,
                       !.displayDate = data.display_date,
                       !.isTomorrow = data.is_tomorrow]
    ELSE state

\* a handleMessage that leaves the item list as it is
handleMessageKeepsItems(state, data) ==
    IF data.type = "init" \/ data.type = "update"
    THEN [state EXCEPT !.familyMembers = data.family_members,
                       !.categories = data.categories,
                       !.displayDate = data.display_date,
                       !.isTomorrow = data.is_tomorrow]
    ELSE state

\* function handleMessage(data)
handleMessage(state, data) ==
    IF data.type = "init" \/ data.type = "update"
    THEN [state EXCEPT !.items = data.items,
                       !.familyMembers = data.family_members,
                       !.categories = data.categories,
                       !.displayDate = data.display_date,
                       !.isTomorrow = data.is_tomorrow]
    ELSE state

\* ws.onmessage: JSON.parse throws on a malformed frame and the handler ends
onmessage(state, data) ==
    IF data.type = "malformed" THEN state ELSE handleMessage(state, data)

\* ---------------------------------------------------------------- clock
\* target.getTime() - now.getTime() counts the ms of a clock change that
\* lies between now and the target: the next one is at ClockChangeAt
ChangeAhead(now, target) ==
    IF (now < ClockChangeAt /\ ClockChangeAt <= target)
       \/ (now >= ClockChangeAt /\ DayMs + ClockChangeAt <= target)
    THEN shift ELSE 0

\* a target that is still today's cutoff at exactly 19:00:00
targetAfterCutoffOnly(now) == IF now > CutoffMs THEN DayMs + CutoffMs ELSE CutoffMs

\* if (now >= target) target.setDate(target.getDate() + 1): the target of
\* the boundary timer, in ms since 00:00 of today
target(now) == IF now >= CutoffMs THEN DayMs + CutoffMs ELSE CutoffMs

\* const msUntilRefresh = target.getTime() - now.getTime()
msUntilRefresh(now) == target(now) - now + ChangeAhead(now, target(now))

\* ---------------------------------------------------------------- timers
Pending(kind) == {t \in TimerIds : timers[t].kind = kind}
Due == {t \in TimerIds : timers[t].due}

Min(S) == CHOOSE x \in S : \A y \in S : x <= y

\* the id setTimeout returns: never one that is pending or still held
FreshTimer ==
    Min({t \in TimerIds : timers[t].kind = "none"
                          /\ t # reconnectTimeout /\ t # displayDateTimeout})

\* if (handle) clearTimeout(handle)
ClearTimeout(tm, handle) ==
    IF handle # 0 THEN [tm EXCEPT ![handle] = NoTimer] ELSE tm

SetTimeout(tm, t, kind, delay) ==
    [tm EXCEPT ![t] = [kind |-> kind, delay |-> delay, elapsed |-> 0, due |-> FALSE]]

\* a scheduleDisplayDateRefresh that arms a timer without clearing the one
\* the handle refers to
scheduleDisplayDateRefreshNoClear(tm) ==
    SetTimeout(tm, FreshTimer, "display", msUntilRefresh(clock))

\* function scheduleDisplayDateRefresh(): the timers after it ran; the
\* target is the next 19:00, the timer falls due when the clock passes it
scheduleDisplayDateRefresh(tm) ==
    SetTimeout(ClearTimeout(tm, displayDateTimeout), FreshTimer, "display",
               msUntilRefresh(clock))

\* --------------------------------------------------------------- sockets
Live == {s \in SockIds : sockState[s] # "CLOSED" \/ s = errPending}
LiveCount == Cardinality(Live) + Cardinality(Pending("reconnect"))

\* new WebSocket(wsUrl)
NewSocket == Min({s \in SockIds : sockState[s] = "CLOSED" /\ s # ws /\ s # errPending})

IsOpen(s) == s # 0 /\ sockState[s] = "OPEN"

\* the browser runs one task at a time: between the error event of a socket
\* and its close event nothing else runs
Idle == errPending = 0

Send(q, s, m) == [q EXCEPT ![s] = Append(q[s], m)]
Drop(q, s) == [q EXCEPT ![s] = <<>>]

\* ---------------------------------------------------------------- server
\* DisplayWindowSelector: select(now)
\* a cutoff that 19:00:00 itself has not yet passed
pastCutoffExclusive == clock > CutoffMs

pastCutoff == clock >= CutoffMs

select == [display_date |-> IF pastCutoff THEN today + 1 ELSE today,
           is_tomorrow |-> pastCutoff]

Recompute(b) == [b EXCEPT !.display_date = select.display_date,
                          !.is_tomorrow = select.is_tomorrow]

\* a markHandled that takes the command for a toggle and flips the flag
markHandledToggle(b, itemId, handled) ==
    [b EXCEPT !.items = [k \in DOMAIN b.items |->
        IF b.items[k].id = itemId THEN [b.items[k] EXCEPT !.handled = ~b.items[k].handled]
        ELSE b.items[k]]]

\* HandledStateManager: markHandled(itemId, handled)
markHandled(b, itemId, handled) ==
    [b EXCEPT !.items = [k \in DOMAIN b.items |->
        IF b.items[k].id = itemId THEN [b.items[k] EXCEPT !.handled = handled]
        ELSE b.items[k]]]

\* a lookup that finds every id
HasItemAny(b, itemId) == TRUE

HasItem(b, itemId) == \E k \in DOMAIN b.items : b.items[k].id = itemId

\* SyncBroadcaster: a newly-connecting client receives an init message
sendInit(q, s) == Send(q, s, Message("init", board))

\* SyncBroadcaster: the connections the server holds
Connections == {s \in SockIds : sockState[s] = "OPEN"}

CanBroadcast == \A s \in Connections : Len(inbox[s]) < MaxQueue

\* SyncBroadcaster: broadcast(snapshot), an update to every connection
broadcast(q, b) ==
    [s \in SockIds |-> IF s \in Connections THEN Append(q[s], Message("update", b))
                       ELSE q[s]]

\* ------------------------------------------------------------------ Init
Init ==
    /\ mounted = FALSE
    /\ ws = 0
    /\ sockState = [s \in SockIds |-> "CLOSED"]
    /\ errPending = 0
    /\ inbox = [s \in SockIds |-> <<>>]
    /\ outbox = [s \in SockIds |-> <<>>]
    /\ reconnectTimeout = 0
    /\ displayDateTimeout = 0
    /\ timers = [t \in TimerIds |-> NoTimer]
    /\ dashboardState = initialState
    /\ lastFrame = "none"
    /\ today = 0
    /\ clock \in Evening
    /\ shift = 0
    /\ resetArmed = 1
    /\ reported = "none"
    /\ peer = initialState
    /\ board = [items |-> <<Item(1, FALSE)>>, family_members |-> Colors1,
                categories |-> <<"Meeting">>,
                display_date |-> IF pastCutoff THEN 1 ELSE 0,
                is_tomorrow |-> pastCutoff]

\* ---------------------------------------------------------- client steps
\* a connectWebSocket that takes any socket it still holds for a connection
connectWebSocketOnce ==
    IF ws # 0
    THEN UNCHANGED <<ws, sockState>>
    ELSE /\ ws' = NewSocket
         /\ sockState' = [sockState EXCEPT ![NewSocket] = "CONNECTING"]

\* export function connectWebSocket()
connectWebSocket ==
    IF IsOpen(ws)
    THEN UNCHANGED <<ws, sockState>>
    ELSE /\ ws' = NewSocket
         /\ sockState' = [sockState EXCEPT ![NewSocket] = "CONNECTING"]

\* onMount(() => connectWebSocket())
OnMount ==
    /\ Idle
    /\ ~mounted
    /\ LiveCount < MaxLive
    /\ mounted' = TRUE
    /\ connectWebSocket
    /\ UNCHANGED <<peer, lastFrame, errPending, inbox, outbox, reconnectTimeout, displayDateTimeout,
                   timers, dashboardState, board, today, clock, shift,
                   resetArmed, reported>>

\* export function disconnectWebSocket(): the timers and sockets after it ran
disconnectTimers == ClearTimeout(ClearTimeout(timers, reconnectTimeout), displayDateTimeout)
disconnectSockets ==
    IF ws # 0 /\ sockState[ws] \in {"CONNECTING", "OPEN"}
    THEN [sockState EXCEPT ![ws] = "CLOSING"]
    ELSE sockState

\* onDestroy(() => disconnectWebSocket())
OnDestroy ==
    /\ Idle
    /\ mounted
    /\ mounted' = FALSE
    /\ timers' = disconnectTimers
    /\ reconnectTimeout' = 0
    /\ displayDateTimeout' = 0
    /\ sockState' = disconnectSockets
    /\ ws' = 0
    /\ UNCHANGED <<peer, lastFrame, errPending, inbox, outbox, dashboardState, board, today, clock, shift,
                   resetArmed, reported>>

\* an onopen that cancels the reconnect timer and arms no boundary timer
onopenTimersNoBoundary == ClearTimeout(timers, reconnectTimeout)

\* ws.onopen, run when the handshake of socket s succeeds; the server
\* answers a new connection with one init message
onopenTimers == scheduleDisplayDateRefresh(ClearTimeout(timers, reconnectTimeout))

OnOpen(s) ==
    /\ Idle
    /\ sockState[s] = "CONNECTING"
    /\ sockState' = [sockState EXCEPT ![s] = "OPEN"]
    /\ dashboardState' = [dashboardState EXCEPT !.connected = TRUE]
    /\ reconnectTimeout' = 0
    /\ displayDateTimeout' = FreshTimer
    /\ timers' = onopenTimers
    /\ inbox' = sendInit(inbox, s)
    /\ UNCHANGED <<peer, lastFrame, mounted, ws, errPending, outbox, board, today, clock, shift,
                   resetArmed, reported>>

\* ws.onmessage, run for the oldest message in flight to an open socket
OnMessage(s) ==
    /\ Idle
    /\ sockState[s] = "OPEN"
    /\ inbox[s] # <<>>
    /\ dashboardState' = onmessage(dashboardState, Head(inbox[s]))
    /\ inbox' = [inbox EXCEPT ![s] = Tail(inbox[s])]
    /\ lastFrame' = Head(inbox[s]).type
    /\ UNCHANGED <<peer, mounted, ws, sockState, errPending, outbox, reconnectTimeout,
                   displayDateTimeout, timers, board, today, clock, shift,
                   resetArmed, reported>>

\* an error handler that itself marks the client Disconnected and arms the
\* reconnect timer
OnErrorReconnects(s) ==
    /\ Idle
    /\ sockState[s] # "CLOSED"
    /\ sockState' = [sockState EXCEPT ![s] = "CLOSED"]
    /\ errPending' = s
    /\ dashboardState' = [dashboardState EXCEPT !.connected = FALSE]
    /\ reconnectTimeout' = FreshTimer
    /\ timers' = SetTimeout(timers, FreshTimer, "reconnect", ReconnectDelayMs)
    /\ inbox' = Drop(inbox, s)
    /\ outbox' = Drop(outbox, s)
    /\ UNCHANGED <<peer, lastFrame, mounted, ws, displayDateTimeout, board, today, clock, shift,
                   resetArmed, reported>>

\* ws.onerror: the connection of socket s failed; readyState is CLOSED, the
\* handler only logs, and the close event follows in the same task
OnError(s) ==
    /\ Idle
    /\ sockState[s] # "CLOSED"
    /\ sockState' = [sockState EXCEPT ![s] = "CLOSED"]
    /\ errPending' = s
    /\ inbox' = Drop(inbox, s)
    /\ outbox' = Drop(outbox, s)
    /\ UNCHANGED <<peer, lastFrame, mounted, ws, reconnectTimeout, displayDateTimeout, timers,
                   dashboardState, board, today, clock, shift,
                   resetArmed, reported>>

\* the delay ws.onclose passes to setTimeout
oncloseDelay == ReconnectDelayMs

\* ws.onclose of socket s: after its error event, or a close without error
\* of an open or closing socket
OnClose(s) ==
    /\ \/ errPending = s
       \/ Idle /\ sockState[s] \in {"OPEN", "CLOSING"}
    /\ sockState' = [sockState EXCEPT ![s] = "CLOSED"]
    /\ errPending' = 0
    /\ dashboardState' = [dashboardState EXCEPT !.connected = FALSE]
    /\ reconnectTimeout' = FreshTimer
    /\ timers' = SetTimeout(timers, FreshTimer, "reconnect", oncloseDelay)
    /\ inbox' = Drop(inbox, s)
    /\ outbox' = Drop(outbox, s)
    /\ UNCHANGED <<peer, lastFrame, mounted, ws, displayDateTimeout, board, today, clock, shift,
                   resetArmed, reported>>

\* the reconnect timer t fires: setTimeout(connectWebSocket, 2000)
ReconnectFires(t) ==
    /\ Idle
    /\ timers[t].kind = "reconnect"
    /\ timers[t].due
    /\ timers' = [timers EXCEPT ![t] = NoTimer]
    /\ connectWebSocket
    /\ UNCHANGED <<peer, lastFrame, mounted, errPending, inbox, outbox, reconnectTimeout,
                   displayDateTimeout, dashboardState, board, today, clock, shift,
                   resetArmed, reported>>

\* a requestRefresh that hands the message to a socket that is not open
\* yet, to go out once it opens
requestRefreshQueued ==
    IF ws # 0 THEN Send(outbox, ws, [type |-> "refresh"]) ELSE outbox

\* export function requestRefresh(): the outbox after it ran
requestRefresh ==
    IF IsOpen(ws) THEN Send(outbox, ws, [type |-> "refresh"]) ELSE outbox

\* the boundary timer t fires: requestRefresh(); scheduleDisplayDateRefresh()
DisplayDateFires(t) ==
    /\ Idle
    /\ timers[t].kind = "display"
    /\ timers[t].due
    /\ IsOpen(ws) => Len(outbox[ws]) < MaxQueue
    /\ outbox' = requestRefresh
    /\ displayDateTimeout' = FreshTimer
    /\ timers' = scheduleDisplayDateRefresh([timers EXCEPT ![t] = NoTimer])
    /\ UNCHANGED <<peer, lastFrame, mounted, ws, sockState, errPending, inbox, reconnectTimeout,
                   dashboardState, board, today, clock, shift,
                   resetArmed, reported>>

\* a markItemHandled that hands the message to a socket that is not open
\* yet, to go out once it opens
markItemHandledQueued(itemId, handled) ==
    IF ws # 0
    THEN Send(outbox, ws, [type |-> "mark_handled", item_id |-> itemId, handled |-> handled])
    ELSE outbox

\* export function markItemHandled(itemId, handled): the outbox after it ran
markItemHandled(itemId, handled) ==
    IF IsOpen(ws)
    THEN Send(outbox, ws, [type |-> "mark_handled", item_id |-> itemId, handled |-> handled])
    ELSE outbox

\* a handleClick that also flips the card in the mirror before the server
\* answers
HandleClickOptimistic(k) ==
    /\ Idle
    /\ mounted
    /\ k \in DOMAIN dashboardState.items
    /\ IsOpen(ws) => Len(outbox[ws]) < MaxQueue
    /\ outbox' = markItemHandled(dashboardState.items[k].id, ~dashboardState.items[k].handled)
    /\ dashboardState' = [dashboardState EXCEPT !.items[k].handled = ~dashboardState.items[k].handled]
    /\ UNCHANGED <<peer, lastFrame, mounted, ws, sockState, errPending, inbox, reconnectTimeout,
                   displayDateTimeout, timers, board, today, clock, shift,
                   resetArmed, reported>>

\* ItemCard handleClick: markItemHandled(item.id, !item.handled) for a card
\* of the mirror
HandleClick(k) ==
    /\ Idle
    /\ mounted
    /\ k \in DOMAIN dashboardState.items
    /\ IsOpen(ws) => Len(outbox[ws]) < MaxQueue
    /\ outbox' = markItemHandled(dashboardState.items[k].id, ~dashboardState.items[k].handled)
    /\ UNCHANGED <<peer, lastFrame, mounted, ws, sockState, errPending, inbox, reconnectTimeout,
                   displayDateTimeout, timers, dashboardState, board, today, clock, shift,
                   resetArmed, reported>>

\* -------------------------------------------------------- a second display
\* A second display runs the same page against the same server.  Of it the
\* model keeps the store (peer) and the connection PeerSock, which the first
\* display never uses; its timers play no part in what it is used for.
PeerSock == 2

\* ws.onopen of the second display; the server sends it the init message
PeerOpen ==
    /\ Idle
    /\ sockState[PeerSock] = "CONNECTING"
    /\ sockState' = [sockState EXCEPT ![PeerSock] = "OPEN"]
    /\ peer' = [peer EXCEPT !.connected = TRUE]
    /\ inbox' = sendInit(inbox, PeerSock)
    /\ UNCHANGED <<lastFrame, mounted, ws, errPending, outbox, reconnectTimeout,
                   displayDateTimeout, timers, dashboardState, board, today, clock, shift,
                   resetArmed, reported>>

\* ws.onmessage of the second display
PeerMessage ==
    /\ Idle
    /\ sockState[PeerSock] = "OPEN"
    /\ inbox[PeerSock] # <<>>
    /\ peer' = onmessage(peer, Head(inbox[PeerSock]))
    /\ inbox' = [inbox EXCEPT ![PeerSock] = Tail(inbox[PeerSock])]
    /\ UNCHANGED <<lastFrame, mounted, ws, sockState, errPending, outbox, reconnectTimeout,
                   displayDateTimeout, timers, dashboardState, board, today, clock, shift,
                   resetArmed, reported>>

\* handleClick on a card of the second display:
\* markItemHandled(item.id, !item.handled) on its own socket
PeerClick(k) ==
    /\ Idle
    /\ k \in DOMAIN peer.items
    /\ sockState[PeerSock] = "OPEN" => Len(outbox[PeerSock]) < MaxQueue
    /\ outbox' = IF sockState[PeerSock] = "OPEN"
                 THEN Send(outbox, PeerSock,
                           [type |-> "mark_handled", item_id |-> peer.items[k].id,
                            handled |-> ~peer.items[k].handled])
                 ELSE outbox
    /\ UNCHANGED <<peer, lastFrame, mounted, ws, sockState, errPending, inbox,
                   reconnectTimeout, displayDateTimeout, timers, dashboardState, board,
                   today, clock, shift, resetArmed, reported>>

\* ------------------------------------------------------------ wall clock
\* one second passes; a timer that is due runs before more time passes
Tick ==
    /\ Idle
    /\ Due = {}
    /\ Pending("reconnect") # {}
    /\ timers' = [t \in TimerIds |->
         IF timers[t].kind = "reconnect"
         THEN [timers[t] EXCEPT !.elapsed = @ + 1000,
                                !.due = timers[t].elapsed + 1000 >= timers[t].delay]
         ELSE timers[t]]
    /\ UNCHANGED <<peer, lastFrame, mounted, ws, sockState, errPending, inbox, outbox, reconnectTimeout,
                   displayDateTimeout, dashboardState, board, today, clock, shift,
                   resetArmed, reported>>

\* the timers after ms of real time passed
Elapse(tm, ms) ==
    [t \in TimerIds |->
        IF tm[t].kind = "none" THEN tm[t]
        ELSE [tm[t] EXCEPT !.elapsed = @ + ms, !.due = tm[t].elapsed + ms >= tm[t].delay]]

\* the hours until the wall clock reaches 19:00:00 pass: the boundary timers
\* armed for it fall due; a reconnect timer fires before hours pass
Cutoff ==
    /\ Idle
    /\ Due = {}
    /\ Pending("reconnect") = {}
    /\ ~pastCutoff
    /\ clock' = CutoffMs
    /\ timers' = Elapse(timers, CutoffMs - clock + ChangeAhead(clock, CutoffMs))
    /\ shift' = IF clock < ClockChangeAt THEN 0 ELSE shift
    /\ UNCHANGED <<peer, lastFrame, mounted, ws, sockState, errPending, inbox, outbox, reconnectTimeout,
                   displayDateTimeout, dashboardState, board, today, resetArmed, reported>>

\* the rest of the day passes: the wall clock reaches 00:00:00 of the
\* next day
Midnight ==
    /\ Idle
    /\ Due = {}
    /\ Pending("reconnect") = {}
    /\ pastCutoff
    /\ today < MaxDay
    /\ today' = today + 1
    /\ clock' = 0
    /\ timers' = Elapse(timers, DayMs - clock)
    /\ UNCHANGED <<peer, lastFrame, mounted, ws, sockState, errPending, inbox, outbox, reconnectTimeout,
                   displayDateTimeout, dashboardState, board, shift, resetArmed, reported>>

\* ---------------------------------------------------------- server steps
\* applyMutation(command) for the oldest command in flight from socket s
ServerReceive(s) ==
    /\ Idle
    /\ outbox[s] # <<>>
    /\ sockState[s] \in {"OPEN", "CLOSING"}
    /\ CanBroadcast
    /\ outbox' = [outbox EXCEPT ![s] = Tail(outbox[s])]
    /\ LET cmd == Head(outbox[s]) IN
         IF cmd.type = "mark_handled"
         THEN IF HasItem(board, cmd.item_id)
              THEN /\ board' = markHandled(board, cmd.item_id, cmd.handled)
                   /\ inbox' = broadcast(inbox, board')
                   /\ reported' = "ok"
              ELSE /\ reported' = "unknown_item"
                   /\ UNCHANGED <<board, inbox>>
         ELSE /\ board' = Recompute(board)
              /\ inbox' = broadcast(inbox, board')
              /\ UNCHANGED reported
    /\ UNCHANGED <<peer, lastFrame, mounted, ws, sockState, errPending, reconnectTimeout,
                   displayDateTimeout, timers, dashboardState, today, clock, shift,
                   resetArmed>>

\* the server's own boundary timer: recompute the window and broadcast
ServerBoundary ==
    /\ Idle
    /\ board # Recompute(board)
    /\ CanBroadcast
    /\ board' = Recompute(board)
    /\ inbox' = broadcast(inbox, board')
    /\ UNCHANGED <<peer, lastFrame, mounted, ws, sockState, errPending, outbox, reconnectTimeout,
                   displayDateTimeout, timers, dashboardState, today, clock, shift,
                   resetArmed, reported>>

\* a reset that clears the handled flag of every item
resetAtMidnightAll(b) ==
    [b EXCEPT !.items = [k \in DOMAIN b.items |-> [b.items[k] EXCEPT !.handled = FALSE]]]

\* HandledStateManager: resetAtMidnight()
resetAtMidnight(b) ==
    [b EXCEPT !.items = [k \in DOMAIN b.items |->
        IF b.items[k].stay_until_done THEN b.items[k]
        ELSE [b.items[k] EXCEPT !.handled = FALSE]]]

\* the server's reset timer fires: reset, recompute, broadcast, re-arm for
\* the following midnight
ServerReset ==
    /\ Idle
    /\ today >= resetArmed
    /\ CanBroadcast
    /\ board' = Recompute(resetAtMidnight(board))
    /\ inbox' = broadcast(inbox, board')
    /\ resetArmed' = today + 1
    /\ UNCHANGED <<peer, lastFrame, mounted, ws, sockState, errPending, outbox, reconnectTimeout,
                   displayDateTimeout, timers, dashboardState, today, clock, shift, reported>>

\* the CRUD layer deletes item i: recompute and push an update
Without(b, i) == [b EXCEPT !.items = SelectSeq(b.items, LAMBDA item : item.id # i)]

ItemRemoved(i) ==
    /\ Idle
    /\ HasItem(board, i)
    /\ CanBroadcast
    /\ board' = Recompute(Without(board, i))
    /\ inbox' = broadcast(inbox, board')
    /\ UNCHANGED <<peer, lastFrame, mounted, ws, sockState, errPending, outbox, reconnectTimeout,
                   displayDateTimeout, timers, dashboardState, today, clock, shift,
                   resetArmed, reported>>

\* the registry and CRUD layer change the colors and categories
Registries ==
    { [family_members |-> Colors1, categories |-> <<"Meeting">>],
      [family_members |-> Colors2, categories |-> <<"Meeting", "School">>] }

ExternalUpdate(r) ==
    /\ Idle
    /\ r.family_members # board.family_members
    /\ CanBroadcast
    /\ board' = [board EXCEPT !.family_members = r.family_members,
                              !.categories = r.categories]
    /\ inbox' = broadcast(inbox, board')
    /\ UNCHANGED <<peer, lastFrame, mounted, ws, sockState, errPending, outbox, reconnectTimeout,
                   displayDateTimeout, timers, dashboardState, today, clock, shift,
                   resetArmed, reported>>

\* a frame the client does not know: another type, or not JSON at all
Stray == [items |-> <<Item(2, TRUE)>>, family_members |-> NoColors,
          categories |-> <<"Task">>, display_date |-> 7, is_tomorrow |-> TRUE]
UnknownFrames == {Malformed, Message("pong", Stray)}

StrayFrame(s, m) ==
    /\ Idle
    /\ sockState[s] = "OPEN"
    /\ Len(inbox[s]) < MaxQueue
    /\ inbox' = Send(inbox, s, m)
    /\ UNCHANGED <<peer, lastFrame, mounted, ws, sockState, errPending, outbox, reconnectTimeout,
                   displayDateTimeout, timers, dashboardState, board, today, clock, shift,
                   resetArmed, reported>>

\* -------------------------------------------------------- specifications
\* The connection lifecycle of the page: mounts and destroys, the socket
\* events of every socket it created, both timers and the refresh the
\* boundary timer asks for, over one evening.
Next ==
    \/ \E s \in SockIds : OnClose(s)
    \/ OnMount
    \/ OnDestroy
    \/ \E s \in SockIds : OnOpen(s)
    \/ \E s \in SockIds : OnMessage(s)
    \/ \E s \in SockIds : OnError(s)
    \/ \E t \in TimerIds : ReconnectFires(t)
    \/ \E t \in TimerIds : DisplayDateFires(t)
    \/ Tick
    \/ Cutoff
    \/ \E s \in SockIds : ServerReceive(s)

Spec == Init /\ [][Next]_vars

\* The synchronisation of a page that stays mounted: clicks, commands,
\* broadcasts, stray frames, connection losses and reconnects, over one
\* evening.
NextSync ==
    \/ \E s \in SockIds : OnClose(s)
    \/ OnMount
    \/ \E s \in SockIds : OnOpen(s)
    \/ \E s \in SockIds : OnMessage(s)
    \/ \E s \in SockIds : OnError(s)
    \/ \E t \in TimerIds : ReconnectFires(t)
    \/ \E t \in TimerIds : DisplayDateFires(t)
    \/ \E k \in 1..MaxItems : HandleClick(k)
    \/ Tick
    \/ Cutoff
    \/ \E s \in SockIds : ServerReceive(s)
    \/ ServerBoundary
    \/ \E r \in Registries : ExternalUpdate(r)
    \/ \E s \in SockIds, m \in UnknownFrames : StrayFrame(s, m)

SpecSync == Init /\ [][NextSync]_vars

\* The same page under the fairness the browser and the server give: a
\* task that is ready runs, a timer that is due fires, time passes, a
\* message in flight to an open socket is delivered, the server works off
\* its commands.  Nothing forces the network to accept or keep a connection.
NextLive ==
    \/ \E s \in SockIds : OnClose(s)
    \/ OnMount
    \/ \E s \in SockIds : OnOpen(s)
    \/ \E s \in SockIds : OnMessage(s)
    \/ \E s \in SockIds : OnError(s)
    \/ \E t \in TimerIds : ReconnectFires(t)
    \/ \E t \in TimerIds : DisplayDateFires(t)
    \/ \E k \in 1..MaxItems : HandleClick(k)
    \/ Tick
    \/ Cutoff
    \/ \E s \in SockIds : ServerReceive(s)
    \/ ServerBoundary

Fairness ==
    /\ \A s \in SockIds : WF_vars(errPending = s /\ OnClose(s))
    /\ \A s \in SockIds : WF_vars(OnMessage(s))
    /\ \A t \in TimerIds : WF_vars(ReconnectFires(t))
    /\ \A t \in TimerIds : WF_vars(DisplayDateFires(t))
    /\ WF_vars(Tick)
    /\ \A s \in SockIds : WF_vars(ServerReceive(s))
    /\ WF_vars(ServerBoundary)

SpecLive == Init /\ [][NextLive]_vars /\ Fairness

\* The boundary timer against the wall clock: a page that opens at any
\* time of day, in a night with or without a clock change, and stays
\* connected over the following cutoffs and midnights.
InitClock ==
    /\ mounted = TRUE
    /\ ws = 1
    /\ sockState = [s \in SockIds |-> IF s = 1 THEN "CONNECTING" ELSE "CLOSED"]
    /\ errPending = 0
    /\ inbox = [s \in SockIds |-> <<>>]
    /\ outbox = [s \in SockIds |-> <<>>]
    /\ reconnectTimeout = 0
    /\ displayDateTimeout = 0
    /\ timers = [t \in TimerIds |-> NoTimer]
    /\ dashboardState = initialState
    /\ lastFrame = "none"
    /\ today = 0
    /\ clock \in Instants
    /\ shift \in Shifts
    /\ resetArmed = 1
    /\ reported = "none"
    /\ peer = initialState
    /\ board = [items |-> <<Item(1, FALSE)>>, family_members |-> Colors1,
                categories |-> <<"Meeting">>,
                display_date |-> IF pastCutoff THEN 1 ELSE 0,
                is_tomorrow |-> pastCutoff]

NextClock ==
    \/ \E s \in SockIds : OnOpen(s)
    \/ \E s \in SockIds : OnMessage(s)
    \/ \E t \in TimerIds : DisplayDateFires(t)
    \/ Cutoff
    \/ Midnight
    \/ \E s \in SockIds : ServerReceive(s)
    \/ ServerBoundary
    \/ ServerReset

SpecClock == InitClock /\ [][NextClock]_vars

\* The board over the days: a connected page in front of a board whose
\* items differ in recurrence, anchor date, handled flag and
\* stay_until_done; clicks, deletions, the cutoffs and the midnight resets.
FirstItems == {ItemOn(1, FALSE, FALSE, 0, recurrence) : recurrence \in {"none", "daily"}}

SecondItems == {<<ItemOn(2, FALSE, TRUE, 0, "none")>>}

\* handleClick by a user who waits for the server to take one click before
\* the next
ClickInTurn(k) ==
    /\ outbox[ws] = <<>>
    /\ HandleClick(k)

InitBoard ==
    /\ mounted = TRUE
    /\ ws = 1
    /\ sockState = [s \in SockIds |-> IF s = 1 THEN "CONNECTING" ELSE "CLOSED"]
    /\ errPending = 0
    /\ inbox = [s \in SockIds |-> <<>>]
    /\ outbox = [s \in SockIds |-> <<>>]
    /\ reconnectTimeout = 0
    /\ displayDateTimeout = 0
    /\ timers = [t \in TimerIds |-> NoTimer]
    /\ dashboardState = initialState
    /\ lastFrame = "none"
    /\ today = 0
    /\ clock = Morning
    /\ shift = 0
    /\ resetArmed = 1
    /\ reported = "none"
    /\ peer = initialState
    /\ \E first \in FirstItems, second \in SecondItems :
         board = [items |-> <<first>> \o second, family_members |-> Colors1,
                  categories |-> <<"Meeting">>, display_date |-> 0, is_tomorrow |-> FALSE]

NextBoard ==
    \/ \E s \in SockIds : OnOpen(s)
    \/ \E s \in SockIds : OnMessage(s)
    \/ \E k \in 1..MaxItems : ClickInTurn(k)
    \/ \E t \in TimerIds : DisplayDateFires(t)
    \/ Cutoff
    \/ Midnight
    \/ \E s \in SockIds : ServerReceive(s)
    \/ ServerBoundary
    \/ ServerReset
    \/ \E i \in ItemIds : ItemRemoved(i)

SpecBoard == InitBoard /\ [][NextBoard]_vars

\* The weeks: a page connecting on any day of two weeks, in front of a
\* board with one weekly item of any weekday and one of three anchor dates;
\* the cutoff of the day moves the window to the next day.
Anchors == {0, 3, 9}

InitWeek ==
    /\ mounted = TRUE
    /\ ws = 1
    /\ sockState = [s \in SockIds |-> IF s = 1 THEN "CONNECTING" ELSE "CLOSED"]
    /\ errPending = 0
    /\ inbox = [s \in SockIds |-> <<>>]
    /\ outbox = [s \in SockIds |-> <<>>]
    /\ reconnectTimeout = 0
    /\ displayDateTimeout = 0
    /\ timers = [t \in TimerIds |-> NoTimer]
    /\ dashboardState = initialState
    /\ lastFrame = "none"
    /\ today \in 0..LastDay
    /\ clock = Morning
    /\ shift = 0
    /\ resetArmed = today + 1
    /\ reported = "none"
    /\ peer = initialState
    /\ \E date \in Anchors, day \in 0..6 :
         board = [items |-> <<WeeklyItem(1, date, day)>>, family_members |-> Colors1,
                  categories |-> <<"Meeting">>, display_date |-> today, is_tomorrow |-> FALSE]

NextWeek ==
    \/ \E s \in SockIds : OnOpen(s)
    \/ \E s \in SockIds : OnMessage(s)
    \/ \E t \in TimerIds : DisplayDateFires(t)
    \/ Cutoff
    \/ \E s \in SockIds : ServerReceive(s)
    \/ ServerBoundary

SpecWeek == InitWeek /\ [][NextWeek]_vars

\* handleMessage on its own: a connected client with any mirror and the
\* same snapshot twice in flight.
ItemLists == {<<>>, <<Item(1, FALSE)>>, <<Item(1, TRUE)>>, <<Item(1, FALSE), Item(2, TRUE)>>}

Snapshots ==
    [items : ItemLists, family_members : {NoColors, Colors1, Colors2},
     categories : {<<>>, <<"Meeting">>}, display_date : {0, 1}, is_tomorrow : BOOLEAN]

InitApply ==
    /\ mounted = TRUE
    /\ ws = 1
    /\ sockState = [s \in SockIds |-> IF s = 1 THEN "OPEN" ELSE "CLOSED"]
    /\ errPending = 0
    /\ outbox = [s \in SockIds |-> <<>>]
    /\ reconnectTimeout = 0
    /\ displayDateTimeout = 1
    /\ timers = [t \in TimerIds |->
         IF t = 1 THEN [kind |-> "display", delay |-> 0, elapsed |-> 0, due |-> FALSE]
         ELSE NoTimer]
    /\ lastFrame = "none"
    /\ today = 0
    /\ clock = Morning
    /\ shift = 0
    /\ resetArmed = 1
    /\ reported = "none"
    /\ peer = initialState
    /\ board = [items |-> <<Item(1, FALSE)>>, family_members |-> Colors1,
                categories |-> <<"Meeting">>, display_date |-> 0, is_tomorrow |-> FALSE]
    /\ \E b \in Snapshots :
         dashboardState = [handleMessage(initialState, Message("init", b))
                             EXCEPT !.connected = TRUE]
    /\ \E b \in Snapshots, type \in {"init", "update"} :
         inbox = [s \in SockIds |->
                    IF s = 1 THEN <<Message(type, b), Message(type, b)>> ELSE <<>>]

NextApply == \E s \in SockIds : OnMessage(s)

SpecApply == InitApply /\ [][NextApply]_vars

\* Two displays on one server: both connect, receive snapshots and click
\* cards; the server takes their commands one at a time, in any order.
InitPeers ==
    /\ mounted = TRUE
    /\ ws = 1
    /\ sockState = [s \in SockIds |-> IF s \in {1, PeerSock} THEN "CONNECTING" ELSE "CLOSED"]
    /\ errPending = 0
    /\ inbox = [s \in SockIds |-> <<>>]
    /\ outbox = [s \in SockIds |-> <<>>]
    /\ reconnectTimeout = 0
    /\ displayDateTimeout = 0
    /\ timers = [t \in TimerIds |-> NoTimer]
    /\ dashboardState = initialState
    /\ lastFrame = "none"
    /\ today = 0
    /\ clock = Morning
    /\ shift = 0
    /\ resetArmed = 1
    /\ reported = "none"
    /\ peer = initialState
    /\ \E h \in BOOLEAN :
         board = [items |-> <<Item(1, h)>>, family_members |-> Colors1, categories |-> <<"Meeting">>,
                  display_date |-> 0, is_tomorrow |-> FALSE]

NextPeers ==
    \/ OnOpen(ws)
    \/ OnMessage(ws)
    \/ \E k \in 1..MaxItems : HandleClick(k)
    \/ PeerOpen
    \/ PeerMessage
    \/ \E k \in 1..MaxItems : PeerClick(k)
    \/ \E s \in SockIds : ServerReceive(s)

SpecPeers == InitPeers /\ [][NextPeers]_vars

\* ================================================================ claims
NoReconnectPending == Pending("reconnect") = {}
NoBoundaryPending == Pending("display") = {}

\* C1: after disconnectWebSocket() and until the next connectWebSocket(),
\* no reconnect timer is armed, no socket is connecting or open, and the
\* client is Disconnected, also after the close event of the closed socket.
C1_DisconnectSuppressesReconnect ==
    ~mounted =>
        /\ NoReconnectPending
        /\ \A s \in SockIds : sockState[s] \notin {"CONNECTING", "OPEN"}
        /\ ~dashboardState.connected

\* C2: right after disconnectWebSocket() returns, no reconnect timer and no
\* boundary timer is pending, both handles are null and ws is null.
C2_DisconnectCancelsBothTimers ==
    [][OnDestroy =>
          /\ NoReconnectPending'
          /\ NoBoundaryPending'
          /\ reconnectTimeout' = 0
          /\ displayDateTimeout' = 0
          /\ ws' = 0]_vars

\* the mirror carries exactly the snapshot of message m
MirrorIs(state, m) ==
    /\ state.items = m.items
    /\ state.familyMembers = m.family_members
    /\ state.categories = m.categories
    /\ state.displayDate = m.display_date
    /\ state.isTomorrow = m.is_tomorrow

\* the step armed a reconnect timer with the fixed delay and holds its id
ArmsReconnect ==
    /\ reconnectTimeout' \in TimerIds
    /\ timers[reconnectTimeout'].kind = "none"
    /\ timers'[reconnectTimeout'] =
         [kind |-> "reconnect", delay |-> ReconnectDelayMs, elapsed |-> 0, due |-> FALSE]

\* the step created a socket, now the current one, in state CONNECTING
OpensAttempt ==
    /\ ws' \in SockIds
    /\ sockState[ws'] = "CLOSED"
    /\ sockState'[ws'] = "CONNECTING"

\* C3: the close of a socket of a Connected client makes it Disconnected
\* and arms the 2 s reconnect timer; the timer fires exactly 2 s later and
\* the Disconnected client then opens a new attempt; the init message that
\* follows the handshake replaces the mirror.
C3_ReconnectAfterClose ==
    [][/\ \A s \in SockIds :
            (OnClose(s) /\ dashboardState.connected) =>
                (~dashboardState'.connected /\ ArmsReconnect)
       /\ \A t \in TimerIds :
            (ReconnectFires(t) /\ ~dashboardState.connected) =>
                (timers[t].elapsed = ReconnectDelayMs /\ OpensAttempt)
       /\ \A s \in SockIds :
            (OnMessage(s) /\ Head(inbox[s]).type = "init") =>
                MirrorIs(dashboardState', Head(inbox[s]))]_vars

\* C4 as stated: the error event itself makes the client Disconnected and
\* arms the reconnect timer.
C4_ErrorEventDisconnects ==
    [][\A s \in SockIds :
          (OnError(s) /\ dashboardState.connected) =>
              (~dashboardState'.connected /\ ArmsReconnect)]_vars

\* C4 amended: the error handler changes neither the mirror nor a timer;
\* the close event that follows it in the same task makes the client
\* Disconnected and arms the 2 s reconnect timer.
C4_CloseAfterErrorDisconnects ==
    [][\A s \in SockIds :
          /\ OnError(s) =>
                /\ UNCHANGED <<dashboardState, timers, reconnectTimeout, displayDateTimeout>>
                /\ errPending' = s
          /\ (errPending = s /\ OnClose(s)) =>
                (~dashboardState'.connected /\ ArmsReconnect)
          /\ errPending = s => (ENABLED OnClose(s) /\ ~ENABLED OnError(s))]_vars

\* the error handler of a Connected client ran, its close event has not yet
C4_Witness ==
    /\ errPending # 0
    /\ dashboardState.connected
    /\ NoReconnectPending

\* C6: whenever the client is Connected, no reconnect timer is pending.
C6_ConnectedNoReconnectPending ==
    dashboardState.connected => NoReconnectPending

\* C5: a mounted client that lost its socket, also one whose attempt failed
\* before it opened, makes another attempt, however often that repeats; an
\* attempt the server accepts makes it Connected.
C5_AlwaysRecovers ==
    /\ (mounted /\ Live = {}) ~> (\E s \in SockIds : sockState[s] = "CONNECTING")
    /\ [][\A s \in SockIds : OnOpen(s) => dashboardState'.connected]_vars

\* a client that was connected before is connecting again
C5_Witness ==
    /\ ws # 0
    /\ sockState[ws] = "CONNECTING"
    /\ reconnectTimeout # 0
    /\ NoReconnectPending
    /\ dashboardState.items # <<>>

\* the frame ws.onmessage of socket s runs for in this step
Frame(s) == Head(inbox[s])
IsSnapshot(m) == m.type = "init" \/ m.type = "update"

\* C7: an init or update message replaces items, family colors, categories,
\* display date and tomorrow-flag in one step by the values it carries and
\* leaves the connected flag and both timers as they are.
C7_SnapshotReplacesMirror ==
    [][\A s \in SockIds :
          (OnMessage(s) /\ IsSnapshot(Frame(s))) =>
              /\ MirrorIs(dashboardState', Frame(s))
              /\ dashboardState'.connected = dashboardState.connected
              /\ UNCHANGED <<timers, reconnectTimeout, displayDateTimeout>>]_vars

\* an update replaced every field of the mirror the init message had set
C7_Witness ==
    /\ lastFrame = "update"
    /\ dashboardState.connected
    /\ dashboardState.items = <<Item(1, TRUE)>>
    /\ dashboardState.familyMembers = Colors2
    /\ dashboardState.categories = <<"Meeting", "School">>
    /\ dashboardState.displayDate = 1
    /\ dashboardState.isTomorrow

\* C8: a frame that is neither init nor update changes nothing of the
\* mirror, closes no socket and arms no timer.
C8_UnknownFrameIgnored ==
    [][\A s \in SockIds :
          (OnMessage(s) /\ ~IsSnapshot(Frame(s))) =>
              UNCHANGED <<dashboardState, ws, sockState, errPending, timers,
                          reconnectTimeout, displayDateTimeout>>]_vars

\* a stray frame with a payload was handled; the socket is open, the mirror
\* is still the board's
C8_Witness ==
    /\ lastFrame = "pong"
    /\ IsOpen(ws)
    /\ dashboardState.connected
    /\ MirrorIs(dashboardState, Message("update", board))
    /\ NoReconnectPending

\* C9: the second of two equal snapshots in a row leaves the mirror as the
\* first one made it.
C9_SnapshotIdempotent ==
    [][\A s \in SockIds :
          (OnMessage(s) /\ lastFrame # "none" /\ Len(inbox[s]) = 1) =>
              dashboardState' = dashboardState]_vars

\* both copies were applied to a mirror that differed from the snapshot
C9_Witness ==
    /\ lastFrame = "update"
    /\ inbox[1] = <<>>
    /\ dashboardState.items = <<Item(1, FALSE), Item(2, TRUE)>>
    /\ dashboardState.familyMembers = Colors2

HandledIn(list, i, v) ==
    \E k \in DOMAIN list : list[k].id = i /\ list[k].handled = v

\* an update that carries handled = v for item i is in flight to socket s
UpdateInFlight(s, i, v) ==
    /\ sockState[s] = "OPEN"
    /\ \E k \in DOMAIN inbox[s] :
         inbox[s][k].type = "update" /\ HandledIn(inbox[s][k].items, i, v)

\* item i is in the handled partition of the mirror for v = TRUE, in the
\* active partition for v = FALSE, and not in the other one
MirrorShows(i, v) ==
    /\ HandledIn(IF v THEN handledItems(dashboardState) ELSE activeItems(dashboardState), i, v)
    /\ \A k \in DOMAIN (IF v THEN activeItems(dashboardState) ELSE handledItems(dashboardState)) :
         (IF v THEN activeItems(dashboardState) ELSE handledItems(dashboardState))[k].id # i

\* the server applies mark_handled for an item it has: it answers with an
\* update that carries the new value to every connection
MarkBroadcast ==
    \A s \in SockIds :
        (ServerReceive(s) /\ Head(outbox[s]).type = "mark_handled"
            /\ HasItem(board, Head(outbox[s]).item_id)) =>
        \A c \in Connections :
            /\ Len(inbox'[c]) = Len(inbox[c]) + 1
            /\ inbox'[c][Len(inbox'[c])].type = "update"
            /\ HandledIn(inbox'[c][Len(inbox'[c])].items,
                         Head(outbox[s]).item_id, Head(outbox[s]).handled)

\* C10 as stated: every client connected when the server applies
\* mark_handled eventually has the item in the partition of the new value.
C10_EveryConnectedMirrorUpdated ==
    /\ [][MarkBroadcast]_vars
    /\ \A s \in SockIds, i \in ItemIds, v \in BOOLEAN :
         UpdateInFlight(s, i, v) ~> MirrorShows(i, v)

\* C10 amended: ... or its connection closes before the update reaches it.
C10_ConnectedMirrorUpdatedOrClosed ==
    /\ [][MarkBroadcast]_vars
    /\ \A s \in SockIds, i \in ItemIds, v \in BOOLEAN :
         UpdateInFlight(s, i, v) ~> (MirrorShows(i, v) \/ sockState[s] # "OPEN")

\* an update moved item 1 of a connected mirror to the handled partition
C10_Witness ==
    /\ lastFrame = "update"
    /\ IsOpen(ws)
    /\ MirrorShows(1, TRUE)
    /\ HandledIn(board.items, 1, TRUE)

\* the mirror carries the canonical BoardState of the server
Consistent == MirrorIs(dashboardState, Message("update", board))

\* C11: if from some point on the client stays Connected and the server
\* applies no further mutation, then from some point on the mirror equals
\* the canonical state for good.
C11_EventuallyConsistent ==
    (<>[](dashboardState.connected) /\ <>[][board' = board]_vars) => <>[]Consistent

\* the mirror caught up with a board that both a click and the boundary changed
C11_Witness ==
    /\ lastFrame = "update"
    /\ dashboardState.connected
    /\ IsOpen(ws) /\ inbox[ws] = <<>>
    /\ Consistent
    /\ board.is_tomorrow
    /\ HandledIn(board.items, 1, TRUE)
    /\ clock = CutoffMs

\* no snapshot is in flight to socket s behind the frame at its head
NoSnapshotBehind(s) == \A k \in 2..Len(inbox[s]) : ~IsSnapshot(inbox[s][k])

\* C12: a new connection is sent exactly one init message, the first frame
\* on it, carrying the canonical state at connect time; processing it makes
\* the mirror that snapshot, which is the canonical state unless a newer
\* snapshot is already in flight behind it: no missed update is replayed.
C12_InitCarriesLatest ==
    /\ [][\A s \in SockIds :
            /\ OnOpen(s) => inbox'[s] = <<Message("init", board)>>
            /\ (OnMessage(s) /\ Frame(s).type = "init") =>
                  /\ MirrorIs(dashboardState', Frame(s))
                  /\ NoSnapshotBehind(s) => Consistent']_vars
    /\ [](\A s \in SockIds : \A k \in 2..Len(inbox[s]) : inbox[s][k].type # "init")

\* a second connection is open and its init message is in flight to a
\* mirror that missed changes of the items, the colors and the window
C12_Witness ==
    /\ ws > 1 /\ IsOpen(ws)
    /\ inbox[ws] = <<Message("init", board)>>
    /\ dashboardState.items = <<Item(1, FALSE)>>
    /\ dashboardState.familyMembers = Colors1
    /\ ~dashboardState.isTomorrow
    /\ board.items = <<Item(1, TRUE)>>
    /\ board.family_members = Colors2
    /\ board.is_tomorrow

\* C13: the snapshots of a client are applied in the order the server
\* produced them: the display date of the mirror, which the server never
\* sets back, never goes back, and once every frame in flight on an open
\* connection is delivered the mirror is the last snapshot sent on it, the
\* canonical state.
C13_MirrorNeverGoesBack ==
    /\ [][dashboardState'.displayDate >= dashboardState.displayDate]_vars
    /\ [](\A s \in SockIds : (IsOpen(s) /\ inbox[s] = <<>>) => Consistent)

\* the boundary timer the handle names is pending and, unless it is due,
\* has the time to the next cutoff left
BoundaryArmed ==
    /\ displayDateTimeout # 0
    /\ timers[displayDateTimeout].kind = "display"
    /\ \/ timers[displayDateTimeout].due
       \/ timers[displayDateTimeout].delay - timers[displayDateTimeout].elapsed
            = msUntilRefresh(clock)

\* C14: the open event arms the boundary timer for the next cutoff; when
\* the timer fires, a Connected client sends refresh and the timer is armed
\* again, for the cutoff of the next day; so while the current socket is
\* open a boundary timer for the next cutoff is pending.
C14_BoundaryTimerKeptArmed ==
    /\ [](IsOpen(ws) => BoundaryArmed)
    /\ [][/\ \A s \in SockIds : OnOpen(s) => (BoundaryArmed' /\ ~timers'[displayDateTimeout'].due)
          /\ \A t \in TimerIds : DisplayDateFires(t) =>
                /\ IsOpen(ws) => outbox'[ws] = Append(outbox[ws], [type |-> "refresh"])
                /\ BoundaryArmed'
                /\ ~timers'[displayDateTimeout'].due
                /\ clock = CutoffMs => timers'[displayDateTimeout'].delay = DayMs]_vars

\* the timer of a Connected client fired at the cutoff: refresh is on its
\* way and the timer is armed for 19:00 of the next day
C14_Witness ==
    /\ IsOpen(ws)
    /\ dashboardState.connected
    /\ clock = CutoffMs
    /\ outbox[ws] = <<[type |-> "refresh"]>>
    /\ BoundaryArmed
    /\ timers[displayDateTimeout].delay = DayMs

\* the step armed the boundary timer
ArmsBoundary == (\E s \in SockIds : OnOpen(s)) \/ (\E t \in TimerIds : DisplayDateFires(t))

\* the delay of the boundary timer the step armed
ArmedDelay == timers'[displayDateTimeout'].delay

\* every pending boundary timer falls due at the next 19:00:00 exactly:
\* never before it, and the cutoff leaves none of them behind
DueAtNextCutoff ==
    /\ [](\A t \in TimerIds : timers[t].kind = "display" =>
            /\ timers[t].elapsed <= timers[t].delay
            /\ timers[t].due <=> (timers[t].elapsed = timers[t].delay)
            /\ timers[t].due => clock = CutoffMs)
    /\ [][Cutoff => \A t \in TimerIds : timers[t].kind = "display" => timers'[t].due]_vars

\* C15 as stated: the delay is never negative and never more than 24 hours.
C15_DelayWithinOneDay ==
    /\ DueAtNextCutoff
    /\ [][ArmsBoundary => (ArmedDelay >= 0 /\ ArmedDelay <= DayMs)]_vars

\* C15 amended: the timer is armed for the next 19:00:00, tomorrow's at
\* exactly 19:00:00; the delay is never negative, at most 24 hours when no
\* clock change lies before the target, and at most 25 hours otherwise.
C15_DelayToNextCutoff ==
    /\ DueAtNextCutoff
    /\ [][ArmsBoundary =>
            /\ ArmedDelay >= 0
            /\ ArmedDelay <= DayMs + HourMs
            /\ shift = 0 => ArmedDelay <= DayMs
            /\ (shift = 0 /\ clock = CutoffMs) => ArmedDelay = DayMs
            /\ (shift = 0 /\ clock = CutoffMs - 1) => ArmedDelay = 1]_vars

\* a timer armed at exactly 19:00:00 in a night whose clock is set back
\* fell due 25 hours later, at 19:00:00 of the next day
C15_Witness ==
    /\ today = 1
    /\ clock = CutoffMs
    /\ displayDateTimeout # 0
    /\ timers[displayDateTimeout].due
    /\ timers[displayDateTimeout].delay = DayMs + HourMs

\* the window of board b is what select(now) returns
WindowIs(b, date, tomorrow) == b.display_date = date /\ b.is_tomorrow = tomorrow

\* the step recomputed the window of the board
Recomputes ==
    \/ ServerBoundary
    \/ ServerReset
    \/ \E s \in SockIds : ServerReceive(s) /\ Head(outbox[s]).type = "refresh"

\* C16: select(now) is (today, false) strictly before 19:00:00 and
\* (today + 1, true) from exactly 19:00:00 on; every recompute of the
\* server stores that window, and the client's timer targets tomorrow's
\* cutoff exactly when select says tomorrow.
C16_SelectSwitchesAtCutoff ==
    /\ [](clock < CutoffMs => select = [display_date |-> today, is_tomorrow |-> FALSE])
    /\ [](clock >= CutoffMs => select = [display_date |-> today + 1, is_tomorrow |-> TRUE])
    /\ [](select.is_tomorrow <=> (target(clock) = DayMs + CutoffMs))
    /\ [][Recomputes =>
            WindowIs(board', IF clock < CutoffMs THEN today ELSE today + 1,
                     clock >= CutoffMs)]_vars

\* at exactly 19:00:00 of day 1 the server recomputed: day 2, tomorrow
C16_Witness ==
    /\ today = 1
    /\ clock = CutoffMs
    /\ WindowIs(board, 2, TRUE)
    /\ dashboardState.displayDate = 2

\* display_date and is_tomorrow follow the wall clock under the cutoff rule
FollowsClock(date, tomorrow) ==
    /\ tomorrow <=> clock >= CutoffMs
    /\ date = IF tomorrow THEN today + 1 ELSE today

\* C17: in every reachable state the window of the server's board and the
\* window of the client mirror, also before its first init message and
\* while it is disconnected, follow the wall clock under the cutoff rule.
C17_WindowFollowsClock ==
    /\ FollowsClock(dashboardState.displayDate, dashboardState.isTomorrow)
    /\ FollowsClock(board.display_date, board.is_tomorrow)

\* the reset left the items in place, cleared the handled flag of those
\* that do not stay until done and kept the others as they were
ResetKeeps(old, new) ==
    /\ Len(new) = Len(old)
    /\ \A k \in DOMAIN old :
         new[k] = IF old[k].stay_until_done THEN old[k]
                  ELSE [old[k] EXCEPT !.handled = FALSE]

\* every connection got one more message, an update with the snapshot b
Broadcast(b) ==
    \A s \in SockIds :
        inbox'[s] = IF sockState[s] = "OPEN" THEN Append(inbox[s], Message("update", b))
                    ELSE inbox[s]

UnknownCommand(s) ==
    /\ outbox[s] # <<>>
    /\ Head(outbox[s]).type = "mark_handled"
    /\ \A k \in DOMAIN board.items : board.items[k].id # Head(outbox[s]).item_id

\* C19: a mark_handled for an id that does not exist changes nothing on the
\* board and sends no snapshot, the failure is reported to the caller, every
\* connection stays as it was, the sender's included, and the server goes on
\* to take the next command whenever one is waiting.
C19_UnknownItemIsNoOp ==
    /\ [][\A s \in SockIds :
            (ServerReceive(s) /\ UnknownCommand(s)) =>
                /\ board' = board
                /\ inbox' = inbox
                /\ reported' = "unknown_item"
                /\ sockState' = sockState
                /\ outbox' = [outbox EXCEPT ![s] = Tail(outbox[s])]]_vars
    /\ [](\A s \in SockIds :
            (reported = "unknown_item" /\ Idle /\ CanBroadcast
                /\ sockState[s] = "OPEN" /\ outbox[s] # <<>>) => ENABLED ServerReceive(s))

\* a click on a card of a deleted item was reported as unknown; the
\* connection is still open, the mirror has caught up with the board
\* without the item, and the next command of the page is waiting
C19_Witness ==
    /\ reported = "unknown_item"
    /\ IsOpen(ws) /\ dashboardState.connected
    /\ Len(board.items) = 1
    /\ Consistent
    /\ outbox[ws] # <<>>
    /\ ENABLED ServerReceive(ws)

\* the active partition of the mirror has a card for item i
InActive(i) ==
    \E k \in DOMAIN activeItems(dashboardState) : activeItems(dashboardState)[k].id = i

\* item is on the board, stays until done and is not handled
StaysOn(b, item) ==
    \E k \in DOMAIN b.items :
        /\ b.items[k] = item
        /\ item.stay_until_done /\ ~item.handled

\* the step is the server taking a mark_handled for item i, or deleting it
MarksOrRemoves(i) ==
    \/ ItemRemoved(i)
    \/ \E s \in SockIds :
         /\ ServerReceive(s)
         /\ Head(outbox[s]).type = "mark_handled"
         /\ Head(outbox[s]).item_id = i

InHandled(i) ==
    \E k \in DOMAIN handledItems(dashboardState) : handledItems(dashboardState)[k].id = i

HasCard(i) == InActive(i) \/ InHandled(i)

\* the label of the card of a weekly item names the day that date is
LabelNames(item, date) == formatRecurrence(item) = <<"Every", dayName(date)>>

\* C22: a weekly item occurs on a date on or after its anchor exactly when
\* the weekday of the date is its recurrence_day, 0 = Monday .. 6 = Sunday:
\* the evaluator says so for every such date, and on a mirror in sync with
\* the board, on a display date on or after the anchor, the item has a card
\* exactly when the day named on the card is the day of the display date;
\* with recurrence_day = 2 that is exactly the Wednesdays.
C22_WeeklyOnItsWeekday ==
    \A k \in DOMAIN board.items :
        LET item == board.items[k] IN
        item.recurrence = "weekly" =>
            /\ \A date \in item.date..(LastDay + 1) :
                  /\ occursOn(item, date) <=> LabelNames(item, date)
                  /\ item.recurrence_day = 2 =>
                        (occursOn(item, date) <=> dayName(date) = "Wednesday")
            /\ (Consistent /\ dashboardState.displayDate >= item.date) =>
                  (HasCard(item.id) <=> LabelNames(item, dashboardState.displayDate))

\* a Tuesday evening past the cutoff, in sync: the display date is the
\* Wednesday and the item of every Wednesday, anchored before, has its card
C22_Witness ==
    /\ dayName(today) = "Tuesday" /\ clock >= CutoffMs
    /\ lastFrame = "update"
    /\ Consistent
    /\ dashboardState.displayDate = today + 1
    /\ \E k \in DOMAIN board.items :
         /\ board.items[k].recurrence = "weekly" /\ board.items[k].recurrence_day = 2
         /\ board.items[k].date < today
         /\ InActive(board.items[k].id)

\* the step sent at most one message, on the current socket, and touched
\* nothing else of the client but the outgoing channel
OnlySends ==
    /\ dashboardState' = dashboardState
    /\ UNCHANGED <<mounted, ws, sockState, inbox, lastFrame, reconnectTimeout>>
    /\ \A s \in SockIds :
         \/ outbox'[s] = outbox[s]
         \/ s = ws /\ Len(outbox'[s]) = Len(outbox[s]) + 1

\* C23: markItemHandled and requestRefresh are fire-and-forget: a click and
\* a firing of the boundary timer leave the mirror as it is and keep no
\* record of the message beyond the message itself (the click changes
\* nothing but the outgoing channel, the timer only re-arms itself), and the
\* items of the mirror, their handled flags included, change only in a step
\* that receives an init or update message.
C23_FireAndForget ==
    /\ [][(\E k \in 1..MaxItems : HandleClick(k)) =>
            (OnlySends /\ UNCHANGED <<timers, displayDateTimeout>>)]_vars
    /\ [][(\E t \in TimerIds : DisplayDateFires(t)) => OnlySends]_vars
    /\ [][dashboardState'.items # dashboardState.items =>
            \E s \in SockIds : OnMessage(s) /\ IsSnapshot(Frame(s))]_vars

\* a click went out as mark_handled(true) and waits for the server; the
\* card still shows the item unhandled, as the board has it
C23_Witness ==
    /\ IsOpen(ws) /\ dashboardState.connected
    /\ inbox[ws] = <<>>
    /\ \E k \in DOMAIN dashboardState.items :
         /\ ~dashboardState.items[k].handled
         /\ outbox[ws] =
              <<[type |-> "mark_handled", item_id |-> dashboardState.items[k].id,
                 handled |-> TRUE]>>
    /\ Consistent

\* C24: between two tasks of the page, the connected flag of the mirror is
\* true exactly when the client's current socket is open.
C24_ConnectedIffOpen == Idle => (dashboardState.connected <=> IsOpen(ws))

\* the second half on its own: the flag is never false while the current
\* socket is open
OpenImpliesConnected == IsOpen(ws) => dashboardState.connected

\* the step ran a handler of a socket that is not the current one
SupersededEvent ==
    \E s \in SockIds : s # ws /\ (OnOpen(s) \/ OnMessage(s) \/ OnClose(s))

\* C25: at most one socket with live event handlers exists at any time: no
\* two sockets are connecting, open or closing together.
C25_OneLiveSocket == Cardinality(Live) <= 1

\* the consequence the claim draws: no open, message or close event of a
\* socket that is not the current one changes the mirror, the connected
\* flag or the timers
SupersededEventsInert ==
    [][SupersededEvent =>
        UNCHANGED <<dashboardState, timers, reconnectTimeout, displayDateTimeout>>]_vars

\* C26: at most one reconnect timer is pending at any time, and whenever
\* one is pending the reconnectTimeout handle refers to it.
C26_OneReconnectTimer ==
    /\ Cardinality(Pending("reconnect")) <= 1
    /\ \A t \in Pending("reconnect") : reconnectTimeout = t

\* C27: at most one boundary timer is pending at any time, and the
\* displayDateTimeout handle refers to it.
C27_OneBoundaryTimer ==
    /\ Cardinality(Pending("display")) <= 1
    /\ \A t \in Pending("display") : displayDateTimeout = t

\* after a reconnect of a page that stayed mounted: timer 1 was the boundary
\* timer of the first socket, timer 2 the reconnect timer its close event
\* armed; the open event of the second socket cancelled timer 1 and armed
\* timer 3, the only boundary timer pending
C27_Witness ==
    /\ mounted
    /\ ws = 2 /\ IsOpen(ws)
    /\ sockState[1] = "CLOSED"
    /\ reconnectTimeout = 0
    /\ timers[1] = NoTimer
    /\ displayDateTimeout = 3
    /\ Pending("display") = {3}

\* the number of refresh messages waiting on the outgoing channels
Refreshes(q) ==
    Cardinality({<<s, k>> \in SockIds \X (1..MaxQueue + 1) :
                    k <= Len(q[s]) /\ q[s][k].type = "refresh"})

\* C28: a close event leaves the boundary timer and its handle as they are;
\* a boundary timer that fires while the current socket is not open sends
\* nothing and re-arms itself for the next cutoff; a refresh is only ever
\* sent by a firing of the boundary timer with the socket open, so none is
\* sent on reconnecting; and the display date of the mirror changes only in
\* a step that receives an init or update message.
C28_MissedCutoffNotMadeUp ==
    /\ [][(\E s \in SockIds : OnClose(s)) =>
            /\ displayDateTimeout' = displayDateTimeout
            /\ \A t \in Pending("display") : timers'[t] = timers[t]]_vars
    /\ [][(~IsOpen(ws) /\ \E t \in TimerIds : DisplayDateFires(t)) =>
            /\ outbox' = outbox
            /\ Pending("display")' = {displayDateTimeout'}
            /\ timers'[displayDateTimeout'] =
                 [kind |-> "display", delay |-> msUntilRefresh(clock), elapsed |-> 0,
                  due |-> FALSE]]_vars
    /\ [][Refreshes(outbox') > Refreshes(outbox) =>
            (IsOpen(ws) /\ \E t \in TimerIds : DisplayDateFires(t))]_vars
    /\ [][dashboardState'.displayDate # dashboardState.displayDate =>
            \E s \in SockIds : OnMessage(s) /\ IsSnapshot(Frame(s))]_vars

\* the connection was lost in the morning and the second socket is still
\* connecting when 19:00 passes: the boundary timer of the first socket
\* (timer 1) has fired, nothing was sent, timer 3 is armed for the cutoff of
\* the next day and the mirror still shows the day before
C28_Witness ==
    /\ mounted
    /\ clock = CutoffMs
    /\ ws = 2 /\ sockState[2] = "CONNECTING" /\ sockState[1] = "CLOSED"
    /\ ~dashboardState.connected
    /\ \A s \in SockIds : outbox[s] = <<>>
    /\ timers[1] = NoTimer
    /\ displayDateTimeout = 3
    /\ timers[3] = [kind |-> "display", delay |-> DayMs, elapsed |-> 0, due |-> FALSE]
    /\ dashboardState.displayDate = 0 /\ ~dashboardState.isTomorrow
    /\ lastFrame = "init"

\* the number of mark_handled messages waiting on the outgoing channels
Marks(q) ==
    Cardinality({<<s, k>> \in SockIds \X (1..MaxQueue + 1) :
                    k <= Len(q[s]) /\ q[s][k].type = "mark_handled"})

\* C29: a click while the current socket is not open changes nothing at
\* all: no message, no change of the mirror, the connected flag or the
\* timers; and the click is not made up for later: a mark_handled message
\* appears on an outgoing channel only in a click with the socket open, and
\* an open event sends nothing.
C29_ClickWhileClosedIsLost ==
    /\ [][(~IsOpen(ws) /\ \E k \in 1..MaxItems : HandleClick(k)) => UNCHANGED vars]_vars
    /\ [][Marks(outbox') > Marks(outbox) =>
            (IsOpen(ws) /\ \E k \in 1..MaxItems : HandleClick(k))]_vars
    /\ [][(\E s \in SockIds : OnOpen(s)) => outbox' = outbox]_vars

\* the page shows a card while the socket of a reconnect is still
\* connecting: the card can be clicked and nothing is on its way
C29_Witness ==
    /\ mounted
    /\ ws # 0 /\ sockState[ws] = "CONNECTING"
    /\ ~dashboardState.connected
    /\ dashboardState.items # <<>> /\ ~dashboardState.items[1].handled
    /\ ENABLED HandleClick(1)
    /\ \A s \in SockIds : outbox[s] = <<>>

\* the message a click on the card of item sends: the negation of the
\* handled value the card shows, as a value
MarkOf(item) == [type |-> "mark_handled", item_id |-> item.id, handled |-> ~item.handled]

\* the next command of connection s is a mark_handled with value v
MarkWaiting(s, v) ==
    /\ outbox[s] # <<>>
    /\ Head(outbox[s]).type = "mark_handled"
    /\ Head(outbox[s]).handled = v

\* C30: a click sends mark_handled with the negation of the handled value
\* in the mirror of the display that was clicked, as a value; the server
\* sets the flag of the item to the value of the command whatever it was
\* before, so a mark_handled(true) that arrives after another has been
\* applied leaves the item handled: of two displays that both showed the
\* item unhandled and both clicked, the second command does not flip it back.
C30_AbsoluteLastWriterWins ==
    /\ [][\A k \in 1..MaxItems :
            (HandleClick(k) /\ IsOpen(ws)) =>
                outbox' = Send(outbox, ws, MarkOf(dashboardState.items[k]))]_vars
    /\ [][\A k \in 1..MaxItems :
            (PeerClick(k) /\ sockState[PeerSock] = "OPEN") =>
                outbox' = Send(outbox, PeerSock, MarkOf(peer.items[k]))]_vars
    /\ [][\A s \in SockIds, v \in BOOLEAN :
            (ServerReceive(s) /\ MarkWaiting(s, v)) =>
                /\ Len(board'.items) = Len(board.items)
                /\ \A j \in DOMAIN board.items :
                     /\ board'.items[j].id = board.items[j].id
                     /\ board'.items[j].handled =
                          IF board.items[j].id = Head(outbox[s]).item_id THEN v
                          ELSE board.items[j].handled]_vars
    /\ [][\A s \in SockIds :
            (ServerReceive(s) /\ MarkWaiting(s, TRUE)) =>
                \A j \in DOMAIN board.items :
                    board.items[j].handled => board'.items[j].handled]_vars

\* both displays showed the item unhandled and both clicked: the command
\* of the first has been applied and its update is on the way, the command
\* of the second, mark_handled(true) as well, is still waiting
C30_Witness ==
    /\ board.items[1].handled /\ reported = "ok"
    /\ outbox[ws] = <<>>
    /\ dashboardState.items # <<>> /\ ~dashboardState.items[1].handled
    /\ inbox[ws] = <<Message("update", board)>>
    /\ peer.items # <<>> /\ ~peer.items[1].handled
    /\ outbox[PeerSock] = <<MarkOf(peer.items[1])>>

====
